---- MODULE Spec2Model ----
(***************************************************************************)
(* A model of backend/server.py: the tokenomics generation orchestrator    *)
(* (generate_tokenomics_with_claude, create_fallback_tokenomics), the      *)
(* report renderer (generate_pdf_report) and the HTTP handlers that store  *)
(* and retrieve designs.                                                   *)
(*                                                                         *)
(* Representation of Python values                                         *)
(*   str     a sequence of chunks; a chunk is a TLA+ string that is either *)
(*           one whitespace character or a maximal whitespace-free run,    *)
(*           so that len() and split() can be computed as Python does      *)
(*   float   percentages are kept in tenths of a percent (15.0 is 150)     *)
(*   Optional[x], and "no value yet": a sequence of length 0 or 1          *)
(*   JSON scalars: tagged records, see JNum, JStr, JNull                   *)
(*   the model's raw answer: a sequence of character tokens; a JSON        *)
(*           object member ("key": value) is one token                     *)
(***************************************************************************)
EXTENDS Integers, Sequences, FiniteSets, TLC

VARIABLES
    env_llm_key,    \* whether os.environ holds EMERGENT_LLM_KEY
    inv,            \* the generate_tokenomics invocations, by index
    db_projects,    \* db.tokenomics_projects: the documents, in insertion order
    files,          \* the files written under /tmp, by project id
    http,           \* the last answer of a retrieval or payment handler (0 or
                    \* 1 element)
    uuid_counter,   \* the number of uuid4() identities handed out
    clock,          \* the number of timestamps taken
    env_stripe_key, \* whether os.environ holds STRIPE_API_KEY
    stripe_sessions,\* the checkout sessions the payment gateway has created
    db_payments     \* db.payment_transactions: the documents, in insertion order

\* the state of the payment handlers
pay_vars == <<env_stripe_key, stripe_sessions, db_payments>>

vars == <<env_llm_key, inv, db_projects, files, http, uuid_counter, clock,
          pay_vars>>

-----------------------------------------------------------------------------
(* Bounds of the model *)

MaxInv == 2

MaxWords == 44

MaxAllocs == 8

MaxSessions == 2

MaxClock == 5

-----------------------------------------------------------------------------
(* Python helpers *)

RECURSIVE SumSeq(_)
SumSeq(s) == IF s = <<>> THEN 0 ELSE Head(s) + SumSeq(Tail(s))

\* [f(x) for x in s]
RECURSIVE MapLen(_)
MapLen(s) == IF s = <<>> THEN <<>> ELSE <<Len(Head(s))>> \o MapLen(Tail(s))

\* len(s) of a str
StrLen(s) == SumSeq(MapLen(s))

IsSpace(chunk) == chunk \in {" ", "\n", "\t"}

\* str.split(): the whitespace-free runs, in order
Split(s) == SelectSeq(s, LAMBDA chunk : ~IsSpace(chunk))

\* the truth value of an Optional[str]: None and "" are falsy
Truthy(opt) == Len(opt) = 1 /\ StrLen(opt[1]) > 0

\* " ".join(words) as a str
RECURSIVE JoinWords(_)
JoinWords(ws) ==
    IF ws = <<>> THEN <<>>
    ELSE IF Len(ws) = 1 THEN <<Head(ws)>>
    ELSE <<Head(ws), " ">> \o JoinWords(Tail(ws))

-----------------------------------------------------------------------------
(* Pydantic models *)

None == <<>>

Some(x) == <<x>>

\* TokenomicsRequest: the fields the generation pipeline reads besides the
\* prompt (the prompt is sent to the external model and not modelled)
MkRequest(ptype, audience, name, supply, focus) ==
    [ project_type       |-> ptype,
      target_audience    |-> audience,
      project_name       |-> name,
      initial_supply     |-> supply,
      distribution_focus |-> focus ]

\* the requests of the orchestrator's checks
Requests ==
    { MkRequest(<<"DeFi">>, <<"retail">>, None, Some("100M"), Some("balanced")),
      MkRequest(<<"NFT">>, <<"institutional">>, Some(<<"My", " ", "Token">>),
                Some("1B"), Some("community-heavy")),
      MkRequest(<<"L2", " ", "infra">>, <<"both">>, Some(<<>>), None, None) }

\* the requests of the service's checks
CoreRequests ==
    { request \in Requests : request.project_type # <<"L2", " ", "infra">> }

\* the request of the renderer's checks
RenderRequests ==
    { request \in Requests : request.project_type = <<"NFT">> }

\* TokenAllocation(...)
MkAllocation(category, percentage, tokens, description, vesting, cliff, linear) ==
    [ category             |-> category,
      percentage           |-> percentage,
      tokens               |-> tokens,
      description          |-> description,
      vesting_schedule     |-> vesting,
      cliff_months         |-> cliff,
      linear_unlock_months |-> linear ]

\* TokenomicsProject(...): id and created_at come from the default factories,
\* pdf_generated and payment_status from the field defaults
MkProject(id, now, name, request, allocations, supply, narrative, risks, comparable) ==
    [ project_name        |-> name,
      id                  |-> id,
      allocations         |-> allocations,
      narrative           |-> narrative,
      risks               |-> risks,
      request_data        |-> request,
      total_supply        |-> supply,
      comparable_projects |-> comparable,
      created_at          |-> now,
      pdf_generated       |-> FALSE,
      payment_status      |-> "pending" ]

\* request.project_name or f"{request.project_type} Project"
ProjectName(request) ==
    IF Truthy(request.project_name)
    THEN request.project_name[1]
    ELSE request.project_type \o <<" ", "Project">>

-----------------------------------------------------------------------------
(* create_fallback_tokenomics *)

FallbackAllocations ==
    << MkAllocation(<<"Team">>, 150, 15000000,
           JoinWords(<<"Core", "team", "allocation", "with", "long", "vesting">>),
           JoinWords(<<"4-year", "linear", "vesting", "with", "12-month", "cliff">>),
           12, 36),
       MkAllocation(<<"Investors">>, 200, 20000000,
           JoinWords(<<"Private", "and", "seed", "investor", "allocation">>),
           JoinWords(<<"2-year", "linear", "vesting", "with", "6-month", "cliff">>),
           6, 18),
       MkAllocation(<<"Community">>, 300, 30000000,
           JoinWords(<<"Community", "rewards", "and", "ecosystem", "growth">>),
           JoinWords(<<"5-year", "emission", "schedule">>),
           0, 60),
       MkAllocation(<<"Treasury">>, 250, 25000000,
           JoinWords(<<"Treasury", "for", "development", "and", "partnerships">>),
           JoinWords(<<"On-demand", "unlocking", "via", "governance">>),
           0, 0),
       MkAllocation(<<"Liquidity">>, 100, 10000000,
           JoinWords(<<"DEX", "liquidity", "and", "market", "making">>),
           JoinWords(<<"Immediate", "unlock", "for", "liquidity", "provision">>),
           0, 0) >>

FallbackNarrative(request) ==
    <<"This", " ">> \o request.project_type \o <<" ">>
    \o JoinWords(<<"project", "features", "a", "balanced", "tokenomics", "model",
                   "designed", "for">>)
    \o <<" ">> \o request.target_audience \o <<" ">>
    \o JoinWords(<<"audience.", "The", "distribution", "ensures", "proper",
                   "incentive", "alignment", "between", "stakeholders", "while",
                   "maintaining", "healthy", "token", "circulation.">>)

\* a fallback whose supply follows the request's initial_supply
create_fallback_scaled(request, id, now) ==
    MkProject(id, now, ProjectName(request), request,
              FallbackAllocations,
              IF request.initial_supply = Some("1B") THEN 1000000000 ELSE 100000000,
              FallbackNarrative(request),
              << JoinWords(<<"Market", "volatility">>),
                 JoinWords(<<"Regulatory", "uncertainty">>),
                 JoinWords(<<"Adoption", "challenges">>) >>,
              << <<"Uniswap">>, <<"AAVE">>, <<"Compound">> >>)

create_fallback_tokenomics(request, id, now) ==
    MkProject(id, now, ProjectName(request), request,
              FallbackAllocations,
              100000000,
              FallbackNarrative(request),
              << JoinWords(<<"Market", "volatility">>),
                 JoinWords(<<"Regulatory", "uncertainty">>),
                 JoinWords(<<"Adoption", "challenges">>) >>,
              << <<"Uniswap">>, <<"AAVE">>, <<"Compound">> >>)

-----------------------------------------------------------------------------
(* The external model's answer and its decoding *)

\* one character of the answer: "tick" is a backquote, "nl" a newline, "sp" a
\* space, "lbrace" and "rbrace" the braces of a JSON object, "j" "s" "o" "n"
\* letters, "x" any other character, "0" a digit
Ch(c) == [c |-> c, key |-> "", val |-> <<>>]

\* one member of a JSON object: "key": value
Member(key, val) == [c |-> "member", key |-> key, val |-> val]

Chars(cs) == [i \in 1..Len(cs) |-> Ch(cs[i])]

\* JSON scalars: a number n.f (f the tenths digit), a string, a string that
\* spells the number n.f, and null
JNum(n, f) == [s |-> <<>>, n |-> n, f |-> f, k |-> "num"]

JStr(s) == [s |-> s, n |-> 0, f |-> 0, k |-> "str"]

JNumStr(n, f, s) == [s |-> s, n |-> n, f |-> f, k |-> "numstr"]

JNull == [s |-> <<>>, n |-> 0, f |-> 0, k |-> "null"]

IsWs(tok) == tok.c \in {"nl", "sp"}

RECURSIVE LStrip(_)
LStrip(t) == IF t # <<>> /\ IsWs(Head(t)) THEN LStrip(Tail(t)) ELSE t

RECURSIVE RStrip(_)
RStrip(t) ==
    IF t # <<>> /\ IsWs(t[Len(t)]) THEN RStrip(SubSeq(t, 1, Len(t) - 1)) ELSE t

\* str.strip()
Strip(t) == RStrip(LStrip(t))

\* str.startswith(prefix)
StartsWith(t, prefix) ==
    Len(t) >= Len(prefix) /\ SubSeq(t, 1, Len(prefix)) = prefix

\* t[a:-b] for a >= 0, b > 0
Slice(t, a, b) ==
    IF a + 1 > Len(t) - b THEN <<>> ELSE SubSeq(t, a + 1, Len(t) - b)

FenceJson == Chars(<<"tick", "tick", "tick", "j", "s", "o", "n">>)

Fence == Chars(<<"tick", "tick", "tick">>)

\* fence stripping that knows the untyped fence only
StripFenceUntypedOnly(response) ==
    LET response_text == Strip(response)
    IN  IF StartsWith(response_text, Fence) THEN Slice(response_text, 3, 3)
        ELSE response_text

\* lines 180-184: strip the answer and cut a code fence off it
StripFence(response) ==
    LET response_text == Strip(response)
    IN  IF StartsWith(response_text, FenceJson) THEN Slice(response_text, 7, 3)
        ELSE IF StartsWith(response_text, Fence) THEN Slice(response_text, 3, 3)
        ELSE response_text

\* json.loads(text): whitespace around the document is skipped; an object is a
\* left brace, members, a right brace (a repeated key keeps its last value);
\* a lone digit is a JSON number; anything else is a JSONDecodeError
JsonLoads(text) ==
    LET t == Strip(text)
        n == Len(t)
        keys == {t[i].key : i \in 2..(n - 1)}
        last(key) == CHOOSE i \in 2..(n - 1) :
                        /\ t[i].key = key
                        /\ \A j \in (i + 1)..(n - 1) : t[j].key # key
    IN  IF /\ n >= 2
           /\ t[1] = Ch("lbrace")
           /\ t[n] = Ch("rbrace")
           /\ \A i \in 2..(n - 1) : t[i].c = "member"
        THEN [ok |-> TRUE, isobj |-> TRUE, data |-> [key \in keys |-> t[last(key)].val]]
        ELSE IF t = <<Ch("0")>>
        THEN [ok |-> TRUE, isobj |-> FALSE, data |-> <<>>]
        ELSE [ok |-> FALSE, isobj |-> FALSE, data |-> <<>>]

\* pydantic's validation of one value against float, int and str
FloatOk(v) == v.k \in {"num", "numstr"}

ToFloat(v) == v.n * 10 + v.f

IntOk(v) == v.k \in {"num", "numstr"} /\ v.f = 0

ToInt(v) == v.n

StrOk(v) == v.k \in {"str", "numstr"}

ToStr(v) == v.s

AllocationFields ==
    {"category", "percentage", "tokens", "description", "vesting_schedule",
     "cliff_months", "linear_unlock_months"}

\* a field lookup that falls back to 0, as if the fields had defaults
FieldValueOrDefault(alloc, name) ==
    IF name \in DOMAIN alloc THEN <<alloc[name]>> ELSE <<JNum(0, 0)>>

\* the value TokenAllocation(**alloc) finds for a field: none when the key is
\* absent, for no field has a default
FieldValue(alloc, name) ==
    IF name \in DOMAIN alloc THEN <<alloc[name]>> ELSE <<>>

FieldOk(name, v) ==
    CASE name \in {"category", "description", "vesting_schedule"} -> StrOk(v)
      [] name = "percentage" -> FloatOk(v)
      [] name \in {"tokens", "cliff_months", "linear_unlock_months"} -> IntOk(v)

\* TokenAllocation(**alloc) raises no ValidationError
AllocationOk(alloc) ==
    \A name \in AllocationFields :
        /\ Len(FieldValue(alloc, name)) = 1
        /\ FieldOk(name, FieldValue(alloc, name)[1])

TokenAllocation(alloc) ==
    MkAllocation(ToStr(FieldValue(alloc, "category")[1]),
                 ToFloat(FieldValue(alloc, "percentage")[1]),
                 ToInt(FieldValue(alloc, "tokens")[1]),
                 ToStr(FieldValue(alloc, "description")[1]),
                 ToStr(FieldValue(alloc, "vesting_schedule")[1]),
                 ToInt(FieldValue(alloc, "cliff_months")[1]),
                 ToInt(FieldValue(alloc, "linear_unlock_months")[1]))

\* tokenomics_data.get(key, default) in place of tokenomics_data[key]
SubscriptOrDefault(tokenomics_data, key) ==
    IF key \in DOMAIN tokenomics_data THEN <<tokenomics_data[key]>>
    ELSE IF key \in {"total_supply", "narrative"} THEN <<JNull>>
    ELSE << <<>> >>

\* tokenomics_data[key]: none stands for the KeyError
Subscript(tokenomics_data, key) ==
    IF key \in DOMAIN tokenomics_data THEN <<tokenomics_data[key]>> ELSE <<>>

Raise(exception) == [ok |-> FALSE, exc |-> exception, content |-> <<>>]

\* lines 180-199: from the answer to the fields of the project, or the
\* exception that ends the attempt
ParseResponse(response) ==
    LET loaded == JsonLoads(StripFence(response))
        tokenomics_data == loaded.data
        has(key) == Len(Subscript(tokenomics_data, key)) = 1
        get(key) == Subscript(tokenomics_data, key)[1]
        strs(l) == \A i \in 1..Len(l) : StrOk(l[i])
    IN  IF ~loaded.ok THEN Raise("JSONDecodeError")
        ELSE IF ~loaded.isobj THEN Raise("TypeError")
        ELSE IF ~has("allocations") THEN Raise("KeyError")
        ELSE IF \E i \in 1..Len(get("allocations")) :
                    ~AllocationOk(get("allocations")[i])
        THEN Raise("ValidationError")
        ELSE IF ~(/\ has("total_supply") /\ has("narrative")
                  /\ has("risks") /\ has("comparable_projects"))
        THEN Raise("KeyError")
        ELSE IF ~(/\ IntOk(get("total_supply"))
                  /\ StrOk(get("narrative"))
                  /\ strs(get("risks"))
                  /\ strs(get("comparable_projects")))
        THEN Raise("ValidationError")
        ELSE [ ok |-> TRUE,
               exc |-> "",
               content |->
                 [ allocations |->
                     [i \in 1..Len(get("allocations")) |->
                        TokenAllocation(get("allocations")[i])],
                   narrative |-> ToStr(get("narrative")),
                   risks |->
                     [i \in 1..Len(get("risks")) |-> ToStr(get("risks")[i])],
                   total_supply |-> ToInt(get("total_supply")),
                   comparable_projects |->
                     [i \in 1..Len(get("comparable_projects")) |->
                        ToStr(get("comparable_projects")[i])] ] ]

-----------------------------------------------------------------------------
(* generate_pdf_report: the canvas operations, in order *)

\* reportlab.lib.pagesizes.letter
PageWidth == 612

PageHeight == 792

DrawString(x, y, s) == [s |-> s, x |-> x, y |-> y, op |-> "drawString"]

ShowPage == [s |-> <<>>, x |-> 0, y |-> 0, op |-> "showPage"]

Save == [s |-> <<>>, x |-> 0, y |-> 0, op |-> "save"]

Pad3(m) ==
    IF m < 10 THEN "00" \o ToString(m)
    ELSE IF m < 100 THEN "0" \o ToString(m)
    ELSE ToString(m)

\* f"{n:,}"
RECURSIVE FormatThousands(_)
FormatThousands(n) ==
    IF n < 0 THEN "-" \o FormatThousands(0 - n)
    ELSE IF n < 1000 THEN ToString(n)
    ELSE FormatThousands(n \div 1000) \o "," \o Pad3(n % 1000)

\* f"{x}" of a float kept in tenths
FormatFloat(t) ==
    IF t < 0 THEN "-" \o ToString((0 - t) \div 10) \o "." \o ToString((0 - t) % 10)
    ELSE ToString(t \div 10) \o "." \o ToString(t % 10)

\* lines 304-316: the allocation loop, from the operations and cursor so far
RECURSIVE DrawAllocations(_, _)
DrawAllocations(allocations, st) ==
    IF allocations = <<>> THEN st
    ELSE
        LET allocation == Head(allocations)
            paged == IF st.y < 100
                     THEN [y |-> PageHeight - 50, ops |-> Append(st.ops, ShowPage)]
                     ELSE st
            y1 == paged.y
            y2 == y1 - 15
            y3 == y2 - 12
        IN  DrawAllocations(Tail(allocations),
              [ y |-> y3 - 25,
                ops |-> paged.ops \o
                  << DrawString(70, y1,
                        allocation.category
                        \o <<":", " ", FormatFloat(allocation.percentage), "%">>),
                     DrawString(90, y2,
                        <<FormatThousands(allocation.tokens), " ", "tokens", " ",
                          "-", " ">> \o allocation.description),
                     DrawString(90, y3,
                        <<"Vesting:", " ">> \o allocation.vesting_schedule) >> ])

\* a wrap that starts the next line empty, losing the word that did not fit
RECURSIVE WrapWordsDropping(_, _, _)
WrapWordsDropping(words, lines, current_line) ==
    IF words = <<>>
    THEN IF current_line # <<>> THEN Append(lines, current_line) ELSE lines
    ELSE
        LET word == Head(words)
        IN  IF StrLen(current_line \o <<" ", word>>) < 90
            THEN WrapWordsDropping(Tail(words), lines,
                                   IF current_line # <<>>
                                   THEN current_line \o <<" ", word>>
                                   ELSE <<word>>)
            ELSE WrapWordsDropping(Tail(words), Append(lines, current_line), <<>>)

\* lines 330-340: the narrative's words packed into lines
RECURSIVE WrapWords(_, _, _)
WrapWords(words, lines, current_line) ==
    IF words = <<>>
    THEN IF current_line # <<>> THEN Append(lines, current_line) ELSE lines
    ELSE
        LET word == Head(words)
        IN  IF StrLen(current_line \o <<" ", word>>) < 90
            THEN WrapWords(Tail(words), lines,
                           IF current_line # <<>>
                           THEN current_line \o <<" ", word>>
                           ELSE <<word>>)
            ELSE WrapWords(Tail(words), Append(lines, current_line), <<word>>)

WrapNarrative(narrative) == WrapWords(Split(narrative), <<>>, <<>>)

\* lines 342-347: the narrative lines
RECURSIVE DrawLines(_, _)
DrawLines(lines, st) ==
    IF lines = <<>> THEN st
    ELSE
        LET paged == IF st.y < 100
                     THEN [y |-> PageHeight - 50, ops |-> Append(st.ops, ShowPage)]
                     ELSE st
        IN  DrawLines(Tail(lines),
              [ y |-> paged.y - 15,
                ops |-> Append(paged.ops, DrawString(50, paged.y, Head(lines))) ])

\* lines 358-363: the numbered risks, risk number i first
RECURSIVE DrawRisks(_, _, _)
DrawRisks(risks, i, st) ==
    IF risks = <<>> THEN st
    ELSE
        LET paged == IF st.y < 100
                     THEN [y |-> PageHeight - 50, ops |-> Append(st.ops, ShowPage)]
                     ELSE st
        IN  DrawRisks(Tail(risks), i + 1,
              [ y |-> paged.y - 20,
                ops |-> Append(paged.ops,
                          DrawString(70, paged.y,
                                     <<ToString(i) \o ".", " ">> \o Head(risks))) ])

\* ", ".join(names)
RECURSIVE JoinComma(_)
JoinComma(names) ==
    IF names = <<>> THEN <<>>
    ELSE IF Len(names) = 1 THEN Head(names)
    ELSE Head(names) \o <<",", " ">> \o JoinComma(Tail(names))

generate_pdf_report(project) ==
    LET height == PageHeight
        width == PageWidth
        cover ==
            << DrawString(width \div 2, height - 50, project.project_name),
               DrawString(width \div 2, height - 75, <<"Tokenomics", " ", "Design">>),
               DrawString(50, height - 120, <<"Project", " ", "Overview">>),
               DrawString(70, height - 150,
                          <<"Type:", " ">> \o project.request_data.project_type),
               DrawString(70, height - 170,
                          <<"Target", " ", "Audience:", " ">>
                          \o project.request_data.target_audience),
               DrawString(70, height - 190,
                          <<"Total", " ", "Supply:", " ",
                            FormatThousands(project.total_supply), " ", "tokens">>),
               DrawString(50, height - 230, <<"Token", " ", "Allocations">>) >>
        allocated == DrawAllocations(project.allocations,
                                     [y |-> height - 250, ops |-> cover])
        heading == [ y |-> height - 90,
                     ops |-> allocated.ops \o
                       << ShowPage,
                          DrawString(50, height - 50,
                                     <<"Economic", " ", "Model", " ", "&", " ",
                                       "Narrative">>) >> ]
        told == DrawLines(WrapNarrative(project.narrative), heading)
        risks_at == told.y - 30
        risked == DrawRisks(project.risks, 1,
                    [ y |-> risks_at - 20,
                      ops |-> Append(told.ops,
                                DrawString(50, risks_at, <<"Key", " ", "Risks">>)) ])
        comparable_at == risked.y - 20
    IN  risked.ops \o
        << DrawString(50, comparable_at, <<"Comparable", " ", "Projects">>),
           DrawString(70, comparable_at - 20, JoinComma(project.comparable_projects)),
           Save >>

-----------------------------------------------------------------------------
(* The answers the external model is drawn to give *)

CategoryNames ==
    <<"Team", "Investors", "Community", "Treasury", "Liquidity", "Advisors",
      "Marketing", "Reserve", "Airdrop", "Staking">>

\* allocation i of k in an answer: equal shares of a supply of 1,000,000
JAllocation(i, k) ==
    LET share == 1000 \div k
    IN  [ category             |-> JStr(<<CategoryNames[((i - 1) % 10) + 1]>>),
          percentage           |-> JNum(share \div 10, share % 10),
          tokens               |-> JNum(1000 * share, 0),
          description          |-> JStr(<<"Allocation", " ", ToString(i)>>),
          vesting_schedule     |-> JStr(<<"Linear", " ", "vesting">>),
          cliff_months         |-> JNum(i, 0),
          linear_unlock_months |-> JNum(12 * i, 0) ]

\* a design as the prompt asks for it (lines 146-163), with k allocations
DesignData(k, narrative) ==
    [ allocations         |-> [i \in 1..k |-> JAllocation(i, k)],
      narrative           |-> JStr(narrative),
      risks               |-> << JStr(<<"Smart", " ", "contract", " ", "risk">>),
                                 JStr(<<"Liquidity", " ", "risk">>),
                                 JStr(<<"Governance", " ", "capture">>) >>,
      total_supply        |-> JNum(1000000, 0),
      comparable_projects |-> << JStr(<<"Curve">>), JStr(<<"Lido">>),
                                 JStr(<<"Maker">>) >> ]

ShortNarrative == JoinWords(<<"A", "community-first", "token", "economy.">>)

TopLevelKeys ==
    <<"total_supply", "allocations", "narrative", "risks", "comparable_projects">>

Drop(f, key) == [x \in DOMAIN f \ {key} |-> f[x]]

\* json.dumps(data): the members in the order of the keys
JsonDumps(data) ==
    LET present == SelectSeq(TopLevelKeys, LAMBDA key : key \in DOMAIN data)
    IN  <<Ch("lbrace")>>
        \o [i \in 1..Len(present) |-> Member(present[i], data[present[i]])]
        \o <<Ch("rbrace")>>

Forms ==
    {"plain", "padded", "typed", "typed_tight", "typed_padded", "untyped",
     "untyped_tight"}

\* the body in one of the textual forms the model answers in
Wrap(form, body) ==
    CASE form = "plain"         -> body
      [] form = "padded"        -> Chars(<<"nl", "sp">>) \o body \o Chars(<<"nl">>)
      [] form = "typed"         -> FenceJson \o Chars(<<"nl">>) \o body
                                   \o Chars(<<"nl">>) \o Fence
      [] form = "typed_tight"   -> FenceJson \o body \o Fence
      [] form = "typed_padded"  -> Chars(<<"sp">>) \o FenceJson \o Chars(<<"nl">>)
                                   \o body \o Chars(<<"nl">>) \o Fence
                                   \o Chars(<<"nl">>)
      [] form = "untyped"       -> Fence \o Chars(<<"nl">>) \o body
                                   \o Chars(<<"nl">>) \o Fence
      [] form = "untyped_tight" -> Fence \o body \o Fence

\* an answer of the model, or the error it raises; cls, form, k, at and miss
\* describe how the answer was made
Reply(cls, form, k, at, miss, raises, text) ==
    [ k |-> k,
      text |-> text,
      form |-> form,
      cls |-> cls,
      at |-> at,
      miss |-> miss,
      raises |-> raises ]

ValidReplies(ks, forms, narrative) ==
    { Reply("valid", form, k, 0, "", "",
            Wrap(form, JsonDumps(DesignData(k, narrative)))) :
        k \in ks, form \in forms }

MissingKeyReplies(forms) ==
    { Reply("missing_key", form, 2, 0, TopLevelKeys[j], "",
            Wrap(form, JsonDumps(Drop(DesignData(2, ShortNarrative),
                                      TopLevelKeys[j])))) :
        j \in 1..Len(TopLevelKeys), form \in forms }

WithAllocation(data, at, alloc) ==
    [data EXCEPT !["allocations"] = [@ EXCEPT ![at] = alloc]]

MissingFieldReplies(forms) ==
    { Reply("missing_field", form, 2, at, field, "",
            Wrap(form, JsonDumps(
                WithAllocation(DesignData(2, ShortNarrative), at,
                               Drop(JAllocation(at, 2), field))))) :
        at \in 1..2, field \in AllocationFields, form \in forms }

BadTypeReplies ==
    { Reply("bad_type", "plain", 2, 1, "percentage", "",
            JsonDumps(WithAllocation(DesignData(2, ShortNarrative), 1,
                [JAllocation(1, 2) EXCEPT !["percentage"] = JStr(<<"half">>)]))),
      Reply("bad_type", "plain", 2, 2, "tokens", "",
            JsonDumps(WithAllocation(DesignData(2, ShortNarrative), 2,
                [JAllocation(2, 2) EXCEPT !["tokens"] = JNull]))),
      Reply("bad_type", "plain", 2, 0, "narrative", "",
            JsonDumps([DesignData(2, ShortNarrative) EXCEPT !["narrative"] = JNull])) }

UndecodableReplies ==
    { Reply("not_json", "plain", 0, 0, "", "",
            Chars(<<"s", "o", "sp", "s", "o", "n">>)),
      Reply("not_json", "plain", 0, 1, "", "", <<>>),
      Reply("not_json", "typed", 2, 0, "closing fence", "",
            FenceJson \o Chars(<<"nl">>)
            \o JsonDumps(DesignData(2, ShortNarrative))),
      Reply("not_object", "plain", 0, 0, "", "", Chars(<<"0">>)) }

RaisedReplies ==
    { Reply("raise", "", 0, 0, "", exception, <<>>) :
        exception \in {"ModelUnavailable", "ModelTimeout"} }

\* the narratives of the renderer's checks: n words, the odd ones of odd_len
\* characters and the even ones of even_len, each spelling its position,
\* separated by sep
RECURSIVE Filler(_)
Filler(length) ==
    IF length <= 0 THEN ""
    ELSE IF length % 2 = 0
    THEN LET half == Filler(length \div 2) IN half \o half
    ELSE "x" \o Filler(length - 1)

PadWord(word, length) == word \o Filler(length - Len(word))

RECURSIVE LongNarrative(_, _, _, _)
LongNarrative(n, odd_len, even_len, sep) ==
    IF n = 0 THEN <<>>
    ELSE LongNarrative(n - 1, odd_len, even_len, sep)
         \o (IF n = 1 THEN <<>> ELSE sep)
         \o <<PadWord(ToString(n), IF n % 2 = 1 THEN odd_len ELSE even_len)>>

WordLengths == {1, 44, 45, 89, 95}

Separators == { <<" ">>, <<" ", "\n">> }

RenderReply(n, odd_len, even_len, sep) ==
    Reply("valid", "plain", 2, 0, "", "",
          JsonDumps(DesignData(2, LongNarrative(n, odd_len, even_len, sep))))

\* values an allocation field may hold against its meaning: a negative
\* number, a word, null
OffValues == { JNum(0 - 1, 0), JNum(0 - 12, 0), JStr(<<"half">>), JNull }

\* well-formed answers one allocation field of which holds such a value
OffValueReplies ==
    { Reply("off_value", form, 2, at, field, "",
            Wrap(form, JsonDumps(
                WithAllocation(DesignData(2, ShortNarrative), at,
                               [JAllocation(at, 2) EXCEPT ![field] = value])))) :
        at \in 1..2,
        field \in {"percentage", "tokens", "cliff_months", "linear_unlock_months"},
        value \in OffValues,
        form \in {"plain", "typed"} }

\* well-formed answers whose allocation at repeats the category of the other
\* allocation, or has the empty string for its category
OffCategoryReplies ==
    { Reply("off_category", form, 2, at, "category", "",
            Wrap(form, JsonDumps(
                WithAllocation(DesignData(2, ShortNarrative), at,
                               [JAllocation(at, 2) EXCEPT !["category"] = value])))) :
        at \in 1..2,
        value \in { JAllocation(1, 2).category, JAllocation(2, 2).category,
                    JStr(<<>>) },
        form \in {"plain", "typed"} }

\* every answer of the orchestrator's checks
AllReplies ==
    ValidReplies(0..MaxAllocs, Forms, ShortNarrative)
    \cup MissingKeyReplies({"plain", "typed"})
    \cup MissingFieldReplies({"plain", "untyped"})
    \cup BadTypeReplies \cup UndecodableReplies \cup RaisedReplies

\* the answers of the service's checks
CoreReplies ==
    ValidReplies({2}, {"typed"}, ShortNarrative)
    \cup { reply \in MissingKeyReplies({"plain"}) : reply.miss = "risks" }
    \cup { reply \in RaisedReplies : reply.raises = "ModelTimeout" }

-----------------------------------------------------------------------------
(* The service: state and handlers *)

ProjectIds == 1..(MaxInv + 1)

\* an invocation of generate_tokenomics that has not been made
Idle ==
    [ request  |-> <<>>,   \* the request, once made
      exc      |-> "",     \* the exception the orchestrator caught and logged
      project  |-> <<>>,   \* the project the orchestrator returned
      reply    |-> <<>>,   \* what the external model answered, once it has
      pc       |-> "idle",
      path     |-> <<>>,   \* the orchestrator states passed through
      resp     |-> <<>> ]  \* the HTTP answer, once given

Init ==
    /\ env_llm_key \in BOOLEAN
    /\ inv = [i \in 1..MaxInv |-> Idle]
    /\ db_projects = <<>>
    /\ files = [project_id \in ProjectIds |-> <<>>]
    /\ http = <<>>
    /\ uuid_counter = 0
    /\ clock = 0
    /\ env_stripe_key \in BOOLEAN
    /\ stripe_sessions = <<>>
    /\ db_payments = <<>>

\* an identity generator that hands the last identity out again
uuid4_stale == IF uuid_counter = 0 THEN 1 ELSE uuid_counter

\* str(uuid.uuid4()): an identity no earlier call returned
uuid4 == uuid_counter + 1

\* datetime.now(timezone.utc)
utcnow == clock + 1

\* lines 191-199: the project built from a validated answer
ProjectFromContent(request, content) ==
    MkProject(uuid4, utcnow, ProjectName(request), request,
              content.allocations, content.total_supply, content.narrative,
              content.risks, content.comparable_projects)

\* lines 203-206: the except branch of generate_tokenomics_with_claude
FallbackProject(request) == create_fallback_tokenomics(request, uuid4, utcnow)

\* generate_tokenomics up to its first suspension: the chat is set up (line 116
\* raises KeyError without the key) and the prompt is sent
generate_tokenomics(i, request) ==
    /\ inv[i].pc = "idle"
    /\ \A j \in 1..(i - 1) : inv[j].pc # "idle"
    /\ IF env_llm_key
       THEN /\ inv' = [inv EXCEPT ![i] =
                        [@ EXCEPT !.pc = "Requested",
                                  !.request = <<request>>,
                                  !.path = <<"Built", "Requested">>]]
            /\ UNCHANGED <<uuid_counter, clock>>
       ELSE /\ inv' = [inv EXCEPT ![i] =
                        [@ EXCEPT !.pc = "Saving",
                                  !.request = <<request>>,
                                  !.exc = "KeyError",
                                  !.project = <<FallbackProject(request)>>,
                                  !.path = <<"Built", "FallbackFinalized">>]]
            /\ uuid_counter' = uuid_counter + 1
            /\ clock' = clock + 1
    /\ UNCHANGED <<env_llm_key, db_projects, files, http, pay_vars>>

\* send_message returns reply.text: lines 180-201, or the except branch; then
\* generate_tokenomics goes on to insert_one
ModelResponds(i, reply) ==
    /\ inv[i].pc = "Requested"
    /\ reply.cls # "raise"
    /\ LET request == inv[i].request[1]
           parsed == ParseResponse(reply.text)
       IN  inv' = [inv EXCEPT ![i] =
                    [@ EXCEPT !.pc = "Saving",
                              !.reply = <<reply>>,
                              !.exc = parsed.exc,
                              !.project =
                                  IF parsed.ok
                                  THEN <<ProjectFromContent(request, parsed.content)>>
                                  ELSE <<FallbackProject(request)>>,
                              !.path = @ \o (IF parsed.ok
                                             THEN <<"Parsed", "Finalized">>
                                             ELSE <<"FallbackFinalized">>)]]
    /\ uuid_counter' = uuid_counter + 1
    /\ clock' = clock + 1
    /\ UNCHANGED <<env_llm_key, db_projects, files, http, pay_vars>>

\* send_message raises: the except branch
ModelRaises(i, reply) ==
    /\ inv[i].pc = "Requested"
    /\ reply.cls = "raise"
    /\ inv' = [inv EXCEPT ![i] =
                [@ EXCEPT !.pc = "Saving",
                          !.reply = <<reply>>,
                          !.exc = reply.raises,
                          !.project = <<FallbackProject(inv[i].request[1])>>,
                          !.path = @ \o <<"FallbackFinalized">>]]
    /\ uuid_counter' = uuid_counter + 1
    /\ clock' = clock + 1
    /\ UNCHANGED <<env_llm_key, db_projects, files, http, pay_vars>>

\* datetime.isoformat() and datetime.fromisoformat()
isoformat(t) == <<"iso", t>>

fromisoformat(text) == text[2]

\* lines 388-390: project.dict() with created_at as text, as MongoDB stores it
\* (insert_one adds the _id)
ToDocument(project, object_id) ==
    [ project_name        |-> project.project_name,
      id                  |-> project.id,
      allocations         |-> project.allocations,
      narrative           |-> project.narrative,
      risks               |-> project.risks,
      request_data        |-> project.request_data,
      total_supply        |-> project.total_supply,
      comparable_projects |-> project.comparable_projects,
      created_at          |-> isoformat(project.created_at),
      pdf_generated       |-> project.pdf_generated,
      payment_status      |-> project.payment_status,
      _id                 |-> object_id ]

\* lines 425-426: TokenomicsProject(**project_data), which ignores the _id
FromDocument(project_data) ==
    [ project_name        |-> project_data.project_name,
      id                  |-> project_data.id,
      allocations         |-> project_data.allocations,
      narrative           |-> project_data.narrative,
      risks               |-> project_data.risks,
      request_data        |-> project_data.request_data,
      total_supply        |-> project_data.total_supply,
      comparable_projects |-> project_data.comparable_projects,
      created_at          |-> fromisoformat(project_data.created_at),
      pdf_generated       |-> project_data.pdf_generated,
      payment_status      |-> project_data.payment_status ]

Palette ==
    <<"#DC1FFF", "#00FFA3", "#FF6B35", "#4ECDC4", "#45B7D1", "#96CEB4", "#FFEAA7">>

\* the colours counted from 1, as enumerate(..., 1) would
chart_data_from_one(project) ==
    [ i \in 1..Len(project.allocations) |->
        [ name   |-> project.allocations[i].category,
          tokens |-> project.allocations[i].tokens,
          value  |-> project.allocations[i].percentage,
          color  |-> Palette[(i % 7) + 1] ] ]

\* lines 393-401
chart_data(project) ==
    [ i \in 1..Len(project.allocations) |->
        [ name   |-> project.allocations[i].category,
          tokens |-> project.allocations[i].tokens,
          value  |-> project.allocations[i].percentage,
          color  |-> Palette[((i - 1) % 7) + 1] ] ]

\* the answer given without the document having been inserted
InsertSkipped(i) ==
    /\ inv[i].pc = "Saving"
    /\ LET project == inv[i].project[1]
       IN  inv' = [inv EXCEPT ![i] =
                    [@ EXCEPT !.pc = "Returned",
                              !.resp = << [ project    |-> <<project>>,
                                            chart_data |-> chart_data(project),
                                            status     |-> 200 ] >>]]
    /\ UNCHANGED <<env_llm_key, db_projects, files, http, uuid_counter, clock, pay_vars>>

\* insert_one succeeds and generate_tokenomics returns (lines 390-403)
InsertOk(i) ==
    /\ inv[i].pc = "Saving"
    /\ LET project == inv[i].project[1]
       IN  /\ db_projects' = Append(db_projects,
                                    ToDocument(project, Len(db_projects) + 1))
           /\ inv' = [inv EXCEPT ![i] =
                        [@ EXCEPT !.pc = "Returned",
                                  !.resp = << [ project    |-> <<project>>,
                                                chart_data |-> chart_data(project),
                                                status     |-> 200 ] >>]]
    /\ UNCHANGED <<env_llm_key, files, http, uuid_counter, clock, pay_vars>>

\* insert_one raises: lines 405-407
InsertFails(i) ==
    /\ inv[i].pc = "Saving"
    /\ inv' = [inv EXCEPT ![i] =
                [@ EXCEPT !.pc = "Failed",
                          !.resp = << [ project    |-> <<>>,
                                        chart_data |-> <<>>,
                                        status     |-> 500 ] >>]]
    /\ UNCHANGED <<env_llm_key, db_projects, files, http, uuid_counter, clock, pay_vars>>

\* find_one({}): the first document, whatever its id
find_one_unfiltered(collection, project_id) ==
    IF collection = <<>> THEN <<>> ELSE <<collection[1]>>

\* db.tokenomics_projects.find_one({"id": project_id})
find_one(collection, project_id) ==
    LET hits == SelectSeq(collection, LAMBDA document : document.id = project_id)
    IN  IF hits = <<>> THEN <<>> ELSE <<hits[1]>>

Answer(handler, project_id, status, payload) ==
    [ project_id |-> project_id,
      status |-> status,
      handler |-> handler,
      payload |-> payload ]

\* lines 409-415
get_tokenomics_project(project_id) ==
    /\ LET project == find_one(db_projects, project_id)
       IN  http' = IF project = <<>>
                   THEN <<Answer("get_tokenomics_project", project_id, 404, <<>>)>>
                   ELSE <<Answer("get_tokenomics_project", project_id, 200, project)>>
    /\ UNCHANGED <<env_llm_key, inv, db_projects, files, uuid_counter, clock, pay_vars>>

\* lines 417-440: the report is rendered, written to /tmp/{project_id}_tokenomics.pdf
\* and served from there
download_pdf(project_id) ==
    /\ LET project_data == find_one(db_projects, project_id)
       IN  IF project_data = <<>>
           THEN /\ http' = <<Answer("download_pdf", project_id, 404, <<>>)>>
                /\ UNCHANGED files
           ELSE LET pdf_bytes == generate_pdf_report(FromDocument(project_data[1]))
                IN  /\ files' = [files EXCEPT ![project_id] = <<pdf_bytes>>]
                    /\ http' = <<Answer("download_pdf", project_id, 200, <<pdf_bytes>>)>>
    /\ UNCHANGED <<env_llm_key, inv, db_projects, uuid_counter, clock, pay_vars>>

-----------------------------------------------------------------------------
(* The payment handlers *)

\* lines 105-109: the amounts are whole dollars (79.0 is 79)
PRICING_PACKAGES ==
    [ basic   |-> [name |-> "Basic Tokenomics", amount |-> 79],
      pro     |-> [name |-> "Pro Tokenomics", amount |-> 199],
      premium |-> [name |-> "Premium Package", amount |-> 499] ]

\* the package ids a client may send
PackageIds == {"basic", "pro", "premium", "enterprise", ""}

OriginUrls == {"https://app.example"}

\* the session ids a client or the gateway may name: those the gateway has
\* handed out and one it has not
SessionIds == 1..(MaxSessions + 1)

\* the payment status the gateway reports for a session
PaymentStatuses == {"unpaid", "paid", "expired"}

\* how far a payment handler gets: the gateway call raises, the database call
\* raises, or neither does
Outcomes == {"gateway_raises", "db_raises", "ok"}

\* lines 466-475: CheckoutSessionRequest(...)
CheckoutSessionRequest(package_id, origin_url) ==
    [ amount      |-> PRICING_PACKAGES[package_id].amount,
      currency    |-> "usd",
      success_url |-> <<origin_url, "/success?session_id={CHECKOUT_SESSION_ID}">>,
      cancel_url  |-> <<origin_url, "/pricing">>,
      metadata    |-> [ package_id   |-> package_id,
                        package_name |-> PRICING_PACKAGES[package_id].name ] ]

\* the session the gateway creates for a request (line 477): a new session id
StripeSession(checkout_request) ==
    [ request    |-> checkout_request,
      session_id |-> Len(stripe_sessions) + 1 ]

\* lines 480-485: PaymentTransaction(...); id, created_at and updated_at come
\* from the default factories, payment_status and project_id from the defaults
PaymentTransaction(session_id, amount, metadata) ==
    [ id             |-> uuid4,
      created_at     |-> clock + 1,
      payment_status |-> "pending",
      project_id     |-> <<>>,
      amount         |-> amount,
      currency       |-> "usd",
      metadata       |-> metadata,
      session_id     |-> session_id,
      updated_at     |-> clock + 2 ]

\* lines 487-490: transaction.dict() with the two timestamps as text
ToTransactionDocument(transaction, object_id) ==
    [ id             |-> transaction.id,
      created_at     |-> isoformat(transaction.created_at),
      payment_status |-> transaction.payment_status,
      project_id     |-> transaction.project_id,
      _id            |-> object_id,
      amount         |-> transaction.amount,
      currency       |-> transaction.currency,
      metadata       |-> transaction.metadata,
      session_id     |-> transaction.session_id,
      updated_at     |-> isoformat(transaction.updated_at) ]

\* an update with an empty filter: the first document, whatever its session
update_one_unfiltered(collection, session_id, payment_status, now) ==
    [ d \in 1..Len(collection) |->
        IF d = 1
        THEN [collection[d] EXCEPT !.payment_status = payment_status,
                                   !.updated_at = isoformat(now)]
        ELSE collection[d] ]

\* db.payment_transactions.update_one({"session_id": session_id}, {"$set":
\* {"payment_status": ..., "updated_at": ...}}): the first document that
\* matches is updated, if there is one
update_one(collection, session_id, payment_status, now) ==
    [ d \in 1..Len(collection) |->
        IF /\ collection[d].session_id = session_id
           /\ \A e \in 1..(d - 1) : collection[e].session_id # session_id
        THEN [collection[d] EXCEPT !.payment_status = payment_status,
                                   !.updated_at = isoformat(now)]
        ELSE collection[d] ]

PayAnswer(handler, package_id, session_id, status, payload) ==
    [ status     |-> status,
      handler    |-> handler,
      payload    |-> payload,
      package_id |-> package_id,
      session_id |-> session_id ]

PayError(handler, package_id, session_id, message, exception) ==
    PayAnswer(handler, package_id, session_id, 500, <<message, exception>>)

\* lines 443-496. The 400 of line 448 is raised inside the try block, and
\* HTTPException is an Exception: line 494 catches it and line 496 answers 500
create_checkout_session(package_id, origin_url, outcome) ==
    LET failed(exception) ==
            /\ http' = <<PayError("create_checkout_session", package_id, 0,
                                      "Error creating checkout session: ",
                                      exception)>>
            /\ UNCHANGED <<stripe_sessions, db_payments, uuid_counter, clock>>
    IN  /\ IF package_id \notin DOMAIN PRICING_PACKAGES
           THEN failed("400: Invalid package ID")
           ELSE IF ~env_stripe_key THEN failed("KeyError")
           ELSE IF outcome = "gateway_raises" THEN failed("GatewayError")
           ELSE LET checkout_request == CheckoutSessionRequest(package_id, origin_url)
                    session == StripeSession(checkout_request)
                    transaction == PaymentTransaction(session.session_id,
                                                      checkout_request.amount,
                                                      checkout_request.metadata)
                IN  /\ Len(stripe_sessions) < MaxSessions
                    /\ clock + 2 <= MaxClock
                    /\ stripe_sessions' = Append(stripe_sessions, session)
                    /\ uuid_counter' = uuid_counter + 1
                    /\ clock' = clock + 2
                    /\ IF outcome = "db_raises"
                       THEN /\ http' =
                                 <<PayError("create_checkout_session", package_id,
                                            session.session_id,
                                            "Error creating checkout session: ",
                                            "DatabaseError")>>
                            /\ UNCHANGED db_payments
                       ELSE /\ db_payments' =
                                 Append(db_payments,
                                        ToTransactionDocument(transaction,
                                                              Len(db_payments) + 1))
                            /\ http' =
                                 <<PayAnswer("create_checkout_session", package_id,
                                             session.session_id, 200, <<session>>)>>
        /\ UNCHANGED <<env_llm_key, inv, db_projects, files, env_stripe_key>>

\* the common course of get_checkout_status and stripe_webhook: the gateway
\* names a session and its payment status, and the transaction of that session
\* is updated
UpdateTransaction(handler, message, session_id, payment_status, outcome, payload) ==
    LET failed(exception) ==
            http' = <<PayError(handler, "", session_id, message, exception)>>
    IN  /\ IF ~env_stripe_key
           THEN failed("KeyError") /\ UNCHANGED <<db_payments, clock>>
           ELSE IF outcome = "gateway_raises"
           THEN failed("GatewayError") /\ UNCHANGED <<db_payments, clock>>
           ELSE /\ clock < MaxClock
                /\ clock' = clock + 1
                /\ IF outcome = "db_raises"
                   THEN failed("DatabaseError") /\ UNCHANGED db_payments
                   ELSE /\ db_payments' = update_one(db_payments, session_id,
                                                     payment_status, clock + 1)
                        /\ http' = <<PayAnswer(handler, "", session_id, 200,
                                                   payload)>>
        /\ UNCHANGED <<env_llm_key, inv, db_projects, files, uuid_counter,
                       env_stripe_key, stripe_sessions>>

\* lines 498-524: the gateway reports payment_status for the session
get_checkout_status(session_id, payment_status, outcome) ==
    UpdateTransaction("get_checkout_status", "Error getting checkout status: ",
                      session_id, payment_status, outcome, <<payment_status>>)

\* lines 526-555: the gateway decodes the event into a session id and a
\* payment status
stripe_webhook(session_id, payment_status, outcome) ==
    UpdateTransaction("stripe_webhook", "Error handling webhook: ",
                      session_id, payment_status, outcome, <<"success">>)

-----------------------------------------------------------------------------
(* Specifications *)

\* the service: MaxInv generation requests and any retrievals, interleaved
Next ==
    \/ \E i \in 1..MaxInv :
          \/ \E request \in CoreRequests : generate_tokenomics(i, request)
          \/ \E reply \in CoreReplies : ModelResponds(i, reply)
          \/ \E reply \in CoreReplies : ModelRaises(i, reply)
          \/ InsertOk(i)
          \/ InsertFails(i)
    \/ \E project_id \in ProjectIds :
          \/ get_tokenomics_project(project_id)
          \/ download_pdf(project_id)

Spec == Init /\ [][Next]_vars

\* one generation request against every answer of the external model
NextOrch ==
    \/ \E request \in Requests : generate_tokenomics(1, request)
    \/ \E reply \in AllReplies : ModelResponds(1, reply)
    \/ \E reply \in AllReplies : ModelRaises(1, reply)
    \/ InsertOk(1)
    \/ InsertFails(1)

SpecOrch == Init /\ [][NextOrch]_vars

\* one design of any narrative, generated, stored and rendered
NextRender ==
    \/ \E request \in RenderRequests : generate_tokenomics(1, request)
    \/ \E n \in 0..MaxWords, odd_len \in WordLengths, even_len \in WordLengths,
          sep \in Separators :
            ModelResponds(1, RenderReply(n, odd_len, even_len, sep))
    \/ InsertOk(1)
    \/ download_pdf(1)

SpecRender == Init /\ [][NextRender]_vars

\* the whole service: generation, retrieval and payment, interleaved
NextPay ==
    \/ \E i \in 1..MaxInv :
          \/ \E request \in RenderRequests : generate_tokenomics(i, request)
          \/ \E reply \in ValidReplies({2}, {"typed"}, ShortNarrative) :
                ModelResponds(i, reply)
          \/ InsertOk(i)
    \/ \E project_id \in ProjectIds :
          \/ get_tokenomics_project(project_id)
          \/ download_pdf(project_id)
    \/ \E outcome \in {"db_raises", "ok"} :
          \/ \E package_id \in {"pro", "enterprise"}, origin_url \in OriginUrls :
                create_checkout_session(package_id, origin_url, outcome)
          \/ \E session_id \in SessionIds :
                \/ get_checkout_status(session_id, "paid", outcome)
                \/ stripe_webhook(session_id, "expired", outcome)

SpecPay == Init /\ [][NextPay]_vars

\* one generation request against answers with values of the wrong meaning
\* or with categories that repeat or are empty
NextOff ==
    \/ \E request \in Requests : generate_tokenomics(1, request)
    \/ \E reply \in OffValueReplies \cup OffCategoryReplies :
          ModelResponds(1, reply)
    \/ InsertOk(1)
    \/ InsertFails(1)

SpecOff == Init /\ [][NextOff]_vars

\* the payment handlers alone, over every package id, gateway status and
\* outcome
NextCheckout ==
    \E outcome \in Outcomes :
        \/ \E package_id \in PackageIds, origin_url \in OriginUrls :
              create_checkout_session(package_id, origin_url, outcome)
        \/ \E session_id \in SessionIds, payment_status \in PaymentStatuses :
              \/ get_checkout_status(session_id, payment_status, outcome)
              \/ stripe_webhook(session_id, payment_status, outcome)

SpecCheckout == Init /\ [][NextCheckout]_vars

\* one generation request whose persistence answers, the external model being
\* free never to
FairOrch == SpecOrch /\ WF_vars(InsertOk(1) \/ InsertFails(1))

-----------------------------------------------------------------------------
(* Vocabulary of the properties *)

\* the fields of a design other than its identity, timestamp and flags
Content(project) ==
    [ project_name        |-> project.project_name,
      allocations         |-> project.allocations,
      narrative           |-> project.narrative,
      risks               |-> project.risks,
      total_supply        |-> project.total_supply,
      comparable_projects |-> project.comparable_projects ]

\* the orchestrator of invocation i has returned to generate_tokenomics
Orchestrated(i) == inv[i].pc \in {"Saving", "Returned", "Failed"}

\* generate_tokenomics has answered 200 for invocation i
Returned(i) == inv[i].pc = "Returned"

Replied(i) == Len(inv[i].reply) = 1

\* the external call of invocation i failed, or its answer is not a valid design
GenerationFailed(i) ==
    \/ (Orchestrated(i) /\ ~Replied(i))
    \/ (Replied(i) /\ inv[i].reply[1].cls # "valid")

IsFallbackOf(project, request) ==
    Content(project) = Content(create_fallback_tokenomics(request, 0, 0))

-----------------------------------------------------------------------------
(* C1 *)

\* C1: when the external call fails or its answer cannot be decoded or
\* validated, the orchestrator still returns a project, and its name,
\* allocations, supply, narrative, risks and comparable projects are those of
\* create_fallback_tokenomics for the same request.
C1_FailureYieldsFallback ==
    \A i \in 1..MaxInv :
        (Orchestrated(i) /\ GenerationFailed(i)) =>
            /\ Len(inv[i].project) = 1
            /\ IsFallbackOf(inv[i].project[1], inv[i].request[1])
            /\ inv[i].exc # ""
            /\ inv[i].path[Len(inv[i].path)] = "FallbackFinalized"

C1_Witness ==
    \E i \in 1..MaxInv :
        /\ Returned(i)
        /\ Replied(i)
        /\ inv[i].reply[1].cls = "not_json"
        /\ inv[i].exc = "JSONDecodeError"
        /\ inv[i].resp[1].project[1].total_supply = 100000000

-----------------------------------------------------------------------------
(* C2 *)

PercentageSum(allocations) ==
    SumSeq([i \in 1..Len(allocations) |-> allocations[i].percentage])

TokenSum(allocations) ==
    SumSeq([i \in 1..Len(allocations) |-> allocations[i].tokens])

\* C2: a fallback design, whatever the request, has percentages that sum to
\* exactly 100 (1000 tenths), token counts that sum to its total supply of
\* 100,000,000, and every allocation's tokens equal to its percentage of the
\* total supply.
C2_FallbackSums ==
    \A i \in 1..MaxInv :
        (Orchestrated(i) /\ inv[i].exc # "") =>
            LET project == inv[i].project[1]
            IN  /\ PercentageSum(project.allocations) = 1000
                /\ project.total_supply = 100000000
                /\ TokenSum(project.allocations) = project.total_supply
                /\ \A a \in 1..Len(project.allocations) :
                      project.allocations[a].tokens =
                          (project.total_supply \div 1000)
                          * project.allocations[a].percentage

C2_Witness ==
    \E i \in 1..MaxInv :
        /\ Orchestrated(i)
        /\ inv[i].exc # ""
        /\ inv[i].request[1].initial_supply = Some("1B")
        /\ inv[i].request[1].distribution_focus = Some("community-heavy")
        /\ Len(inv[i].project[1].allocations) = 5

-----------------------------------------------------------------------------
(* C3 *)

\* C3: the chart data of an answer has one entry per allocation, in the
\* allocations' order, entry i with allocation i's category, percentage and
\* tokens and with the colour palette[i mod 7] (i counted from 0).
C3_ChartFollowsAllocations ==
    \A i \in 1..MaxInv :
        Returned(i) =>
            LET allocations == inv[i].resp[1].project[1].allocations
                chart == inv[i].resp[1].chart_data
            IN  /\ Len(chart) = Len(allocations)
                /\ \A a \in 1..Len(allocations) :
                      /\ chart[a].name = allocations[a].category
                      /\ chart[a].value = allocations[a].percentage
                      /\ chart[a].tokens = allocations[a].tokens
                      /\ chart[a].color = Palette[((a - 1) % 7) + 1]

C3_Witness ==
    \E i \in 1..MaxInv :
        /\ Returned(i)
        /\ Len(inv[i].resp[1].chart_data) > 7
        /\ inv[i].resp[1].chart_data[8].color = "#DC1FFF"
        /\ inv[i].resp[1].chart_data[7].color = "#FFEAA7"

-----------------------------------------------------------------------------
(* C4 *)

HasMember(text, key) ==
    \E t \in 1..Len(text) : text[t].c = "member" /\ text[t].key = key

\* the answer lacks one of the five top-level keys
LacksKey(text) == \E j \in 1..Len(TopLevelKeys) : ~HasMember(text, TopLevelKeys[j])

\* an allocation entry of the answer lacks one of the seven fields
LacksField(text) ==
    \E t \in 1..Len(text) :
        /\ text[t].c = "member"
        /\ text[t].key = "allocations"
        /\ \E a \in 1..Len(text[t].val) :
              ~(AllocationFields \subseteq DOMAIN text[t].val[a])

\* C4: an answer that lacks a required top-level key, or an allocation of
\* which lacks a required field, makes parsing fail as a whole: the project
\* returned is the complete fallback design.
C4_MissingMeansFallback ==
    \A i \in 1..MaxInv :
        (/\ Replied(i)
         /\ inv[i].reply[1].cls # "raise"
         /\ (LacksKey(inv[i].reply[1].text) \/ LacksField(inv[i].reply[1].text))) =>
            /\ IsFallbackOf(inv[i].project[1], inv[i].request[1])
            /\ inv[i].exc \in {"KeyError", "ValidationError", "JSONDecodeError",
                               "TypeError"}

C4_Witness ==
    \E i \in 1..MaxInv :
        /\ Returned(i)
        /\ Replied(i)
        /\ inv[i].reply[1].cls = "missing_field"
        /\ inv[i].reply[1].miss = "cliff_months"
        /\ inv[i].reply[1].at = 2
        /\ LacksField(inv[i].reply[1].text)
        /\ inv[i].exc = "ValidationError"

-----------------------------------------------------------------------------
(* C5 *)

\* the design that DesignData(k, narrative) describes, as Python values
ExpectedAllocation(a, k) ==
    MkAllocation(<<CategoryNames[((a - 1) % 10) + 1]>>, 1000 \div k,
                 1000 * (1000 \div k), <<"Allocation", " ", ToString(a)>>,
                 <<"Linear", " ", "vesting">>, a, 12 * a)

ExpectedContent(request, k, narrative) ==
    [ project_name        |-> ProjectName(request),
      allocations         |-> [a \in 1..k |-> ExpectedAllocation(a, k)],
      narrative           |-> narrative,
      risks               |-> << <<"Smart", " ", "contract", " ", "risk">>,
                                 <<"Liquidity", " ", "risk">>,
                                 <<"Governance", " ", "capture">> >>,
      total_supply        |-> 1000000,
      comparable_projects |-> << <<"Curve">>, <<"Lido">>, <<"Maker">> >> ]

\* C5: the encoding of a valid design parses to that design in each textual
\* form, typed fence, untyped fence and unfenced alike; and the fence stripping
\* leaves unfenced text as it is.
C5_FormsParseAlike ==
    \A i \in 1..MaxInv :
        (Replied(i) /\ inv[i].reply[1].cls = "valid") =>
            LET reply == inv[i].reply[1]
            IN  /\ inv[i].exc = ""
                /\ Content(inv[i].project[1]) =
                       ExpectedContent(inv[i].request[1], reply.k, ShortNarrative)
                /\ reply.form = "plain" => StripFence(reply.text) = reply.text
                /\ reply.form = "padded" => StripFence(reply.text) = Strip(reply.text)

C5_Witness ==
    \E i \in 1..MaxInv :
        /\ Returned(i)
        /\ Replied(i)
        /\ inv[i].reply[1].cls = "valid"
        /\ inv[i].reply[1].form = "typed"
        /\ inv[i].reply[1].k = 2
        /\ inv[i].exc = ""
        /\ inv[i].project[1].total_supply = 1000000
        /\ Len(inv[i].project[1].allocations) = 2

-----------------------------------------------------------------------------
(* C6 *)

NarrativeHeading == <<"Economic", " ", "Model", " ", "&", " ", "Narrative">>

RisksHeading == <<"Key", " ", "Risks">>

\* the operations of a report between the narrative heading and the risks
\* heading: the narrative section
NarrativeSection(ops) ==
    LET from == CHOOSE h \in 1..Len(ops) :
                    /\ ops[h].op = "drawString" /\ ops[h].s = NarrativeHeading
                    /\ ops[h].x = 50
                    /\ \A g \in 1..(h - 1) : ops[g].s # NarrativeHeading
        to == CHOOSE r \in (from + 1)..Len(ops) :
                    /\ ops[r].op = "drawString" /\ ops[r].s = RisksHeading
                    /\ ops[r].x = 50
                    /\ \A g \in (r + 1)..Len(ops) : ops[g].s # RisksHeading
    IN  SubSeq(ops, from + 1, to - 1)

PlacedLines(section) == SelectSeq(section, LAMBDA o : o.op = "drawString")

PageBreaks(section) == SelectSeq(section, LAMBDA o : o.op = "showPage")

\* the words of the placed lines, line after line
RECURSIVE PlacedWords(_)
PlacedWords(lines) ==
    IF lines = <<>> THEN <<>> ELSE Split(Head(lines).s) \o PlacedWords(Tail(lines))

StoredProject(project_id) ==
    CHOOSE d \in 1..Len(db_projects) : db_projects[d].id = project_id

\* C6: the report of a design places the words of its narrative each once and
\* in their order, and a narrative of more lines than fit between the first
\* narrative line (y = 702) and the threshold (y = 100), 15 apart, has a page
\* break within the narrative section.
C6_NarrativeWordsKept ==
    \A project_id \in ProjectIds :
        Len(files[project_id]) = 1 =>
            LET section == NarrativeSection(files[project_id][1])
                narrative == db_projects[StoredProject(project_id)].narrative
            IN  /\ PlacedWords(PlacedLines(section)) = Split(narrative)
                /\ Len(PlacedLines(section)) > ((PageHeight - 90 - 100) \div 15) + 1
                       => Len(PageBreaks(section)) >= 1

C6_Witness ==
    \E project_id \in ProjectIds :
        /\ Len(files[project_id]) = 1
        /\ LET section == NarrativeSection(files[project_id][1])
           IN  /\ Len(PlacedLines(section)) > 41
               /\ Len(PageBreaks(section)) >= 1
               /\ Len(PlacedWords(PlacedLines(section))) >= 42

-----------------------------------------------------------------------------
(* C7 *)

NoStoredDesign(project_id) ==
    \A d \in 1..Len(db_projects) : db_projects[d].id # project_id

\* C7: a retrieval of a design or of its document by an identity no stored
\* design has answers 404 and leaves the stored designs, the files and the
\* invocations as they were.
C7_UnknownIdentityNotFound ==
    [][ \A project_id \in ProjectIds :
          (/\ NoStoredDesign(project_id)
           /\ (get_tokenomics_project(project_id) \/ download_pdf(project_id))) =>
              /\ http'[1].status = 404
              /\ http'[1].payload = <<>>
              /\ db_projects' = db_projects
              /\ files' = files
              /\ inv' = inv ]_vars

C7_Witness ==
    /\ Len(http) = 1
    /\ http[1].handler = "download_pdf"
    /\ http[1].status = 404
    /\ Len(db_projects) >= 1
    /\ NoStoredDesign(http[1].project_id)
    /\ \A project_id \in ProjectIds : files[project_id] = <<>>

-----------------------------------------------------------------------------
(* C8 *)

\* C8: every orchestrator invocation that has sent its prompt eventually
\* returns a design.
C8_EveryInvocationReturns ==
    \A i \in 1..MaxInv : (inv[i].pc = "Requested") ~> Orchestrated(i)

-----------------------------------------------------------------------------
(* C9 *)

-----------------------------------------------------------------------------
(* C10 *)

\* C10: the designs the orchestrator returns, on the AI path and on the
\* fallback path, for equal requests or not, have pairwise different
\* identities, and each has pdf_generated false and payment_status pending.
C10_FreshIdentities ==
    \A i \in 1..MaxInv :
        Orchestrated(i) =>
            /\ inv[i].project[1].pdf_generated = FALSE
            /\ inv[i].project[1].payment_status = "pending"
            /\ \A j \in 1..MaxInv :
                  (j # i /\ Orchestrated(j)) =>
                      inv[j].project[1].id # inv[i].project[1].id

C10_Witness ==
    \E i \in 1..MaxInv : \E j \in 1..MaxInv :
        /\ i # j
        /\ Returned(i) /\ Returned(j)
        /\ inv[i].request = inv[j].request
        /\ inv[i].exc = "" /\ inv[j].exc # ""
        /\ inv[i].resp[1].project[1].id # inv[j].resp[1].project[1].id

-----------------------------------------------------------------------------
(* C11 *)

\* a document has been produced for the stored design of this identity:
\* download_pdf rendered it and wrote the file it answers with
DocumentProduced(project_id) == Len(files[project_id]) = 1

\* C11: the rendering flag of a stored design is true once download_pdf has
\* produced a document for it, from then on, and false before.
C11_RenderingFlagFollowsDocument ==
    \A d \in 1..Len(db_projects) :
        db_projects[d].pdf_generated = DocumentProduced(db_projects[d].id)

-----------------------------------------------------------------------------
(* C12 *)

\* the fields of a stored design that are fixed once it is stored
DesignFields(document) ==
    [ project_name        |-> document.project_name,
      id                  |-> document.id,
      allocations         |-> document.allocations,
      narrative           |-> document.narrative,
      risks               |-> document.risks,
      request_data        |-> document.request_data,
      total_supply        |-> document.total_supply,
      comparable_projects |-> document.comparable_projects ]

\* the fields of a transaction record other than payment_status and updated_at
TransactionFields(document) ==
    [ id         |-> document.id,
      created_at |-> document.created_at,
      project_id |-> document.project_id,
      amount     |-> document.amount,
      currency   |-> document.currency,
      metadata   |-> document.metadata,
      session_id |-> document.session_id ]

\* C12: no step of any operation changes the identity, name, request,
\* allocations, supply, narrative, risks or comparable projects of a design
\* already stored; and a transaction record already stored changes only in
\* payment_status and updated_at, and only when get_checkout_status or
\* stripe_webhook acts for the session id of that record.
C12_StoredDesignsKeepTheirFields ==
    [][ /\ \A d \in 1..Len(db_projects) :
              /\ Len(db_projects') >= d
              /\ DesignFields(db_projects'[d]) = DesignFields(db_projects[d])
        /\ \A t \in 1..Len(db_payments) :
              /\ Len(db_payments') >= t
              /\ TransactionFields(db_payments'[t]) = TransactionFields(db_payments[t])
              /\ db_payments'[t] # db_payments[t] =>
                    /\ Len(http') = 1
                    /\ http'[1].handler \in {"get_checkout_status", "stripe_webhook"}
                    /\ http'[1].status = 200
                    /\ http'[1].session_id = db_payments[t].session_id
      ]_vars

C12_Witness ==
    /\ Len(db_projects) = 2
    /\ \E project_id \in ProjectIds : Len(files[project_id]) = 1
    /\ Len(db_payments) = 2
    /\ db_payments[1].payment_status = "pending"
    /\ db_payments[2].payment_status = "paid"
    /\ db_payments[2].updated_at # db_payments[2].created_at
    /\ Len(http) = 1
    /\ http[1].handler = "get_tokenomics_project"
    /\ http[1].status = 200

-----------------------------------------------------------------------------
(* C13 *)

\* the runs of the orchestrator's state machine
OrchestratorRuns ==
    { <<"Built", "Requested", "Parsed", "Finalized">>,
      <<"Built", "Requested", "FallbackFinalized">>,
      <<"Built", "Requested", "Parsed", "FallbackFinalized">> }

IsPrefix(p, q) == Len(p) <= Len(q) /\ SubSeq(q, 1, Len(p)) = p

\* the number of times the external model was called on the path
ModelCalls(path) == Len(SelectSeq(path, LAMBDA state : state = "Requested"))

\* C13: the states an orchestrator run has passed through are a prefix of
\* Built, Requested, Parsed, Finalized or of a run that leaves Requested or
\* Parsed for FallbackFinalized: the model is called exactly once before a
\* fallback, never twice, FallbackFinalized never follows Built directly, and
\* no state recurs.
C13_SinglePassOverTheEdges ==
    \A i \in 1..MaxInv :
        LET path == inv[i].path
        IN  /\ path # <<>> => \E run \in OrchestratorRuns : IsPrefix(path, run)
            /\ ModelCalls(path) <= 1
            /\ (path # <<>> /\ path[Len(path)] = "FallbackFinalized") =>
                   ModelCalls(path) = 1
            /\ \A a \in 1..Len(path) : \A b \in 1..Len(path) :
                   a # b => path[a] # path[b]

-----------------------------------------------------------------------------
(* C14 *)

\* a JSON value that is a number / a non-negative integer
IsNumeric(v) == v.k = "num"

IsNonNegativeInteger(v) == v.k = "num" /\ v.f = 0 /\ v.n >= 0

\* an allocation entry of the answer has a percentage that is not numeric, or
\* a token count or a number of months that is not a non-negative integer
HasOffValue(text) ==
    \E t \in 1..Len(text) :
        /\ text[t].c = "member"
        /\ text[t].key = "allocations"
        /\ \E a \in 1..Len(text[t].val) :
              LET alloc == text[t].val[a]
              IN  \/ ("percentage" \in DOMAIN alloc /\ ~IsNumeric(alloc.percentage))
                  \/ \E field \in {"tokens", "cliff_months", "linear_unlock_months"} :
                        field \in DOMAIN alloc /\ ~IsNonNegativeInteger(alloc[field])

\* C14: an answer with such an allocation entry makes parsing fail and the
\* fallback design is returned; and no design the orchestrator returns holds
\* an allocation with a negative token count or negative months.
C14_OffValuesMeanFallback ==
    \A i \in 1..MaxInv :
        /\ (Replied(i) /\ HasOffValue(inv[i].reply[1].text)) =>
              /\ inv[i].exc # ""
              /\ IsFallbackOf(inv[i].project[1], inv[i].request[1])
        /\ Orchestrated(i) =>
              \A a \in 1..Len(inv[i].project[1].allocations) :
                  LET allocation == inv[i].project[1].allocations[a]
                  IN  /\ allocation.tokens >= 0
                      /\ allocation.cliff_months >= 0
                      /\ allocation.linear_unlock_months >= 0

-----------------------------------------------------------------------------
(* C15 *)

\* the vertical space threshold below which the loops start a new page
NewPageThreshold == 100

\* C15: in every report written, every line of text is placed with the cursor
\* at or above the new-page threshold and on the page.
C15_NoLineBelowThreshold ==
    \A project_id \in ProjectIds :
        Len(files[project_id]) = 1 =>
            LET ops == files[project_id][1]
            IN  \A o \in 1..Len(ops) :
                    ops[o].op = "drawString" =>
                        /\ ops[o].y >= NewPageThreshold
                        /\ ops[o].y <= PageHeight

-----------------------------------------------------------------------------
(* C16 *)

\* C16: every line the word wrap produces for a narrative, as placed in the
\* narrative section of the report, is non-empty and shorter than 90
\* characters.
C16_LinesWithinWidth ==
    \A project_id \in ProjectIds :
        Len(files[project_id]) = 1 =>
            LET lines == PlacedLines(NarrativeSection(files[project_id][1]))
            IN  \A l \in 1..Len(lines) :
                    /\ lines[l].s # <<>>
                    /\ StrLen(lines[l].s) < 90

-----------------------------------------------------------------------------
(* C17 *)

\* C17: every design the orchestrator returns, from the external model's
\* answer or from the fallback, has allocation categories that are non-empty
\* and pairwise distinct.
C17_CategoriesDistinct ==
    \A i \in 1..MaxInv :
        Orchestrated(i) =>
            LET allocations == inv[i].project[1].allocations
            IN  /\ \A a \in 1..Len(allocations) :
                      StrLen(allocations[a].category) > 0
                /\ \A a \in 1..Len(allocations) : \A b \in 1..Len(allocations) :
                      a # b => allocations[a].category # allocations[b].category

-----------------------------------------------------------------------------
(* C18 *)

\* the sessions / transactions a step adds
NewSessions == { stripe_sessions'[k] : k \in (Len(stripe_sessions) + 1)..Len(stripe_sessions') }

NewTransactions == { db_payments'[d] : d \in (Len(db_payments) + 1)..Len(db_payments') }

\* C18: create_checkout_session with a package id outside basic, pro and
\* premium answers 400 "Invalid package ID" and creates no gateway session and
\* stores no transaction; with a valid package id the session it creates and
\* the transaction it stores carry that tier's amount (79, 199 or 499), and
\* the transaction starts with payment status pending.
C18_CheckoutByTier ==
    [][ (http' # http /\ http'[1].handler = "create_checkout_session") =>
          LET answer == http'[1]
              package_id == answer.package_id
          IN  IF package_id \notin {"basic", "pro", "premium"}
              THEN /\ answer.status = 400
                   /\ NewSessions = {}
                   /\ NewTransactions = {}
              ELSE LET amount == CASE package_id = "basic"   -> 79
                                   [] package_id = "pro"     -> 199
                                   [] package_id = "premium" -> 499
                   IN  /\ \A session \in NewSessions :
                              session.request.amount = amount
                       /\ \A transaction \in NewTransactions :
                              /\ transaction.amount = amount
                              /\ transaction.payment_status = "pending"
      ]_vars

====
